---- MODULE Spec2Model ----
(***************************************************************************)
(* A model of the ReactPlayer debugger page (src/src/routes/player.tsx):   *)
(* the localStorage-backed preference hook useLocalStorageState, the       *)
(* bounded callback log kept by addLog, the deferred pause/play toggle     *)
(* testBatchPauseAndPlay and the playback callback handlers.               *)
(*                                                                         *)
(* Numbers are kept in hundredths (the volume slider's step is 0.01), so   *)
(* 0.5 is 50 and 30 seconds are 3000.  The wall clock addLog reads has the   *)
(* one-second resolution of toLocaleTimeString and wraps at midnight; the  *)
(* page is first rendered at 23:59:59.                                     *)
(***************************************************************************)
EXTENDS Integers, Sequences, FiniteSets, TLC

VARIABLES
    mounted,        \* the ReactPlayerDebugger view is mounted
    gen,            \* which instance of the view is the current one
    env,            \* the host the current instance was initialised in
    storage,        \* window.localStorage: key -> string, or NoItem
    state,          \* the four useLocalStorageState values of the instance
    timers,         \* pending setTimeout callbacks (the instance of each), FIFO
    scheduled,      \* setTimeout calls made so far
    fired,          \* timeouts that have run so far
    callbackLogs,   \* the callbackLogs state, newest entry first
    appended,       \* for each entry of callbackLogs, which addLog call made it
    logged,         \* addLog calls made so far
    ticks,          \* seconds the wall clock has advanced since the first render
    sinceClear,     \* addLog calls made since the log was last emptied
    playerRef,      \* playerRef.current is set
    playerState,    \* the playerState state
    sets,           \* setter calls made from the controls so far
    lastSet,        \* per key, the latest setValue call: its value, its write
    last            \* the operation that ran last and how its write went

vars == <<mounted, gen, env, storage, state, timers, scheduled, fired,
          callbackLogs, appended, logged, ticks, sinceClear, playerRef,
          playerState, sets, lastSet, last>>

storeVars == <<mounted, gen, env, storage, state>>
timerVars == <<timers, scheduled, fired>>
logVars == <<callbackLogs, appended, logged, sinceClear>>

(***************************************************************************)
(* Bounds of the model and constants of the program.                       *)
(***************************************************************************)
MaxMounts == 2
MaxToggles == 2
MaxAppends == 3
MaxEnded == 2
MaxSets == 2
MaxTicks == 1
LogAppends == 56
MaxLogs == 50

Min(a, b) == IF a < b THEN a ELSE b

(***************************************************************************)
(* JavaScript values: type is what typeof gives, tag tells the values of   *)
(* one type apart, num is a finite number in hundredths, units the UTF-16  *)
(* code units of a string.                                                 *)
(***************************************************************************)
JBool(b) ==
    [type |-> "boolean", tag |-> IF b THEN "true" ELSE "false", num |-> 0, units |-> <<>>]
JNum(h) == [type |-> "number", tag |-> "finite", num |-> h, units |-> <<>>]
JNaN == [type |-> "number", tag |-> "NaN", num |-> 0, units |-> <<>>]
JInfinity == [type |-> "number", tag |-> "Infinity", num |-> 0, units |-> <<>>]
JNull == [type |-> "object", tag |-> "null", num |-> 0, units |-> <<>>]
JString(units) == [type |-> "string", tag |-> "string", num |-> 0, units |-> units]
SyntaxError == [type |-> "throw", tag |-> "SyntaxError", num |-> 0, units |-> <<>>]

Digit == <<"0", "1", "2", "3", "4", "5", "6", "7", "8", "9">>

RECURSIVE NatToString(_)
NatToString(n) ==
    IF n < 10 THEN Digit[n + 1]
    ELSE NatToString(n \div 10) \o Digit[(n % 10) + 1]

\* Number.prototype.toString of a multiple of 0.01.
NumToString(h) ==
    LET abs == IF h < 0 THEN -h ELSE h
        int == abs \div 100
        frac == abs % 100
        sign == IF h < 0 THEN "-" ELSE ""
    IN  IF frac = 0 THEN sign \o NatToString(int)
        ELSE IF frac % 10 = 0
             THEN sign \o NatToString(int) \o "." \o Digit[(frac \div 10) + 1]
        ELSE sign \o NatToString(int) \o "." \o Digit[(frac \div 10) + 1]
                  \o Digit[(frac % 10) + 1]

\* Number.prototype.toFixed(2) of a non-negative multiple of 0.01.
ToFixed2(h) ==
    NatToString(h \div 100) \o "." \o Digit[((h % 100) \div 10) + 1] \o Digit[(h % 10) + 1]

\* The character of s at position i, "" past either end.
Ch(s, i) == IF i >= 1 /\ i <= Len(s) THEN SubSeq(s, i, i) ELSE ""

StartsWith(s, i, w) ==
    i >= 1 /\ i + Len(w) - 1 <= Len(s) /\ SubSeq(s, i, i + Len(w) - 1) = w

\* The characters the texts of the model are written in: the printable ASCII
\* characters of codes 32 to 95 and 97 to 126, and tab, line feed, form feed
\* and carriage return.
AsciiLow == " !\"#$%&'()*+,-./0123456789:;<=>?@ABCDEFGHIJKLMNOPQRSTUVWXYZ[\\]^_"
AsciiHigh == "abcdefghijklmnopqrstuvwxyz{|}~"

\* The codes of these characters.
Codes == {9, 10, 12, 13} \cup ((32..126) \ {96})

\* String.fromCharCode of such a code.
CharOf(u) ==
    CASE u = 9 -> "\t"
      [] u = 10 -> "\n"
      [] u = 12 -> "\f"
      [] u = 13 -> "\r"
      [] u >= 32 /\ u <= 95 -> Ch(AsciiLow, u - 31)
      [] u >= 97 /\ u <= 126 -> Ch(AsciiHigh, u - 96)

\* The code of every such character.
CodeTable ==
    [c \in {CharOf(u) : u \in Codes} |-> CHOOSE u \in Codes : CharOf(u) = c]

\* String.prototype.charCodeAt of a one-character string.
CodeOf(c) == CodeTable[c]

\* The code units of a string.
RECURSIVE CodeUnits(_)
CodeUnits(str) ==
    IF str = "" THEN <<>>
    ELSE <<CodeOf(Ch(str, 1))>> \o CodeUnits(SubSeq(str, 2, Len(str)))

HexDigits == "0123456789abcdef"

\* The text JSON.stringify writes between the quotes of a string: the quote,
\* the backslash and the control characters are escaped, the rest is copied.
RECURSIVE EscapeString(_)
EscapeString(units) ==
    IF units = <<>> THEN ""
    ELSE LET u == Head(units)
             e == CASE u = 34 -> "\\\""
                    [] u = 92 -> "\\\\"
                    [] u = 8 -> "\\b"
                    [] u = 9 -> "\\t"
                    [] u = 10 -> "\\n"
                    [] u = 12 -> "\\f"
                    [] u = 13 -> "\\r"
                    [] u < 32 /\ u \notin {8, 9, 10, 12, 13} ->
                          "\\u00" \o Ch(HexDigits, (u \div 16) + 1)
                                  \o Ch(HexDigits, (u % 16) + 1)
                    [] u >= 32 /\ u \notin {34, 92} -> CharOf(u)
         IN  e \o EscapeString(Tail(units))

\* JSON.stringify of a string.
Quote(str) == "\"" \o EscapeString(CodeUnits(str)) \o "\""

\* JSON.stringify of a primitive value.
JSONStringify(v) ==
    CASE v.type = "boolean" -> v.tag
      [] v.type = "number" /\ v.tag = "finite" -> NumToString(v.num)
      [] v.type = "number" /\ v.tag \in {"NaN", "Infinity"} -> "null"
      [] v.type = "object" /\ v.tag = "null" -> "null"
      [] v.type = "string" -> "\"" \o EscapeString(v.units) \o "\""

(***************************************************************************)
(* JSON.parse, by recursive descent over the characters of the text.  A    *)
(* parse gives [ok, next, val]: whether a value was read, the position     *)
(* after it, the value.  Values the model's numbers cannot hold (more than *)
(* two decimals, more than five digits, an exponent beyond 2) are numbers  *)
(* tagged "unrepresented"; an array keeps its length and an object nothing *)
(* of its contents.                                                        *)
(***************************************************************************)
JArray(n) == [type |-> "object", tag |-> "array", num |-> n, units |-> <<>>]
JObject == [type |-> "object", tag |-> "object", num |-> 0, units |-> <<>>]
JUnrepresented ==
    [type |-> "number", tag |-> "unrepresented", num |-> 0, units |-> <<>>]

Fail == [ok |-> FALSE, next |-> 0, val |-> SyntaxError]
Parsed(next, val) == [ok |-> TRUE, next |-> next, val |-> val]

JsonWhitespace == {" ", "\t", "\n", "\r"}

RECURSIVE SkipWs(_, _)
SkipWs(s, i) == IF Ch(s, i) \in JsonWhitespace THEN SkipWs(s, i + 1) ELSE i

IsDigit(c) == \E k \in 1..10 : Digit[k] = c
DigitVal(c) == (CHOOSE k \in 1..10 : Digit[k] = c) - 1

\* The position after the digits that start at i.
RECURSIVE ScanDigits(_, _)
ScanDigits(s, i) == IF IsDigit(Ch(s, i)) THEN ScanDigits(s, i + 1) ELSE i

\* The number the digits at i .. j - 1 spell.
RECURSIVE DigitsValue(_, _, _)
DigitsValue(s, i, j) ==
    IF i >= j THEN 0 ELSE DigitsValue(s, i, j - 1) * 10 + DigitVal(Ch(s, j - 1))

RECURSIVE Pow10(_)
Pow10(n) == IF n <= 0 THEN 1 ELSE 10 * Pow10(n - 1)

\* -? (0 | [1-9][0-9]*) (. [0-9]+)? ([eE] [+-]? [0-9]+)?
ParseNumber(s, i) ==
    LET neg == Ch(s, i) = "-"
        a == IF neg THEN i + 1 ELSE i
        b == ScanDigits(s, a)
        intOk == b > a /\ (Ch(s, a) = "0" => b = a + 1)
        hasFrac == Ch(s, b) = "."
        c == IF hasFrac THEN ScanDigits(s, b + 1) ELSE b
        fracOk == hasFrac => c > b + 1
        hasExp == Ch(s, c) \in {"e", "E"}
        expNeg == Ch(s, c + 1) = "-"
        es == IF Ch(s, c + 1) \in {"+", "-"} THEN c + 2 ELSE c + 1
        d == IF hasExp THEN ScanDigits(s, es) ELSE c
        expOk == hasExp => d > es
        fracLen == IF hasFrac THEN c - (b + 1) ELSE 0
        small == (b - a) + fracLen <= 5 /\ (hasExp => d - es <= 1)
        expAbs == IF hasExp THEN DigitsValue(s, es, d) ELSE 0
        exp == IF expNeg THEN -expAbs ELSE expAbs
        mant == DigitsValue(s, a, b) * Pow10(fracLen)
                + (IF hasFrac THEN DigitsValue(s, b + 1, c) ELSE 0)
        scale == fracLen - exp
        exact == small /\ expAbs <= 2
                 /\ (scale > 2 => mant % Pow10(scale - 2) = 0)
        abs == IF scale <= 2 THEN mant * Pow10(2 - scale)
               ELSE mant \div Pow10(scale - 2)
    IN  IF ~(intOk /\ fracOk /\ expOk) THEN Fail
        ELSE IF exact THEN Parsed(d, JNum(IF neg THEN -abs ELSE abs))
        ELSE Parsed(d, JUnrepresented)

HexUpper == "0123456789ABCDEF"
IsHex(c) == c # "" /\ \E k \in 1..16 : Ch(HexDigits, k) = c \/ Ch(HexUpper, k) = c
HexVal(c) == (CHOOSE k \in 1..16 : Ch(HexDigits, k) = c \/ Ch(HexUpper, k) = c) - 1

\* The code unit a \uXXXX escape at j (the backslash) stands for.
UnicodeEscape(s, j) ==
    HexVal(Ch(s, j + 2)) * 4096 + HexVal(Ch(s, j + 3)) * 256
    + HexVal(Ch(s, j + 4)) * 16 + HexVal(Ch(s, j + 5))

\* The rest of a string literal from position j, acc being the code units
\* read so far.  A control character may not stand unescaped.
RECURSIVE StringBody(_, _, _)
StringBody(s, j, acc) ==
    LET c == Ch(s, j)
        e == Ch(s, j + 1)
    IN  IF c = "" THEN Fail
        ELSE IF c = "\"" THEN Parsed(j + 1, JString(acc))
        ELSE IF c \in {"\t", "\n", "\f", "\r"} THEN Fail
        ELSE IF c # "\\" THEN StringBody(s, j + 1, Append(acc, CodeOf(c)))
        ELSE IF e \in {"\"", "\\", "/"} THEN StringBody(s, j + 2, Append(acc, CodeOf(e)))
        ELSE IF e = "b" THEN StringBody(s, j + 2, Append(acc, 8))
        ELSE IF e = "t" THEN StringBody(s, j + 2, Append(acc, 9))
        ELSE IF e = "n" THEN StringBody(s, j + 2, Append(acc, 10))
        ELSE IF e = "f" THEN StringBody(s, j + 2, Append(acc, 12))
        ELSE IF e = "r" THEN StringBody(s, j + 2, Append(acc, 13))
        ELSE IF e = "u" /\ \A k \in 2..5 : IsHex(Ch(s, j + k))
             THEN StringBody(s, j + 6, Append(acc, UnicodeEscape(s, j)))
        ELSE Fail

ParseString(s, i) == IF Ch(s, i) = "\"" THEN StringBody(s, i + 1, <<>>) ELSE Fail

RECURSIVE ParseValue(_, _)
RECURSIVE ParseElements(_, _, _)
RECURSIVE ParseMembers(_, _)

ParseValue(s, i) ==
    LET c == Ch(s, i)
        j == SkipWs(s, i + 1)
    IN  IF c = "\"" THEN ParseString(s, i)
        ELSE IF c = "-" \/ IsDigit(c) THEN ParseNumber(s, i)
        ELSE IF StartsWith(s, i, "true") THEN Parsed(i + 4, JBool(TRUE))
        ELSE IF StartsWith(s, i, "false") THEN Parsed(i + 5, JBool(FALSE))
        ELSE IF StartsWith(s, i, "null") THEN Parsed(i + 4, JNull)
        ELSE IF c = "[" THEN
            IF Ch(s, j) = "]" THEN Parsed(j + 1, JArray(0)) ELSE ParseElements(s, j, 0)
        ELSE IF c = "{" THEN
            IF Ch(s, j) = "}" THEN Parsed(j + 1, JObject) ELSE ParseMembers(s, j)
        ELSE Fail

\* The elements of an array from the value at i on, n elements read before.
ParseElements(s, i, n) ==
    LET r == ParseValue(s, i)
        j == SkipWs(s, r.next)
    IN  IF ~r.ok THEN Fail
        ELSE IF Ch(s, j) = "," THEN ParseElements(s, SkipWs(s, j + 1), n + 1)
        ELSE IF Ch(s, j) = "]" THEN Parsed(j + 1, JArray(n + 1))
        ELSE Fail

\* The members of an object from the key at i on.
ParseMembers(s, i) ==
    LET k == ParseString(s, i)
        j == SkipWs(s, k.next)
        r == ParseValue(s, SkipWs(s, j + 1))
        m == SkipWs(s, r.next)
    IN  IF ~k.ok \/ Ch(s, j) # ":" THEN Fail
        ELSE IF ~r.ok THEN Fail
        ELSE IF Ch(s, m) = "," THEN ParseMembers(s, SkipWs(s, m + 1))
        ELSE IF Ch(s, m) = "}" THEN Parsed(m + 1, JObject)
        ELSE Fail

\* JSON.parse of a string; SyntaxError stands for the exception it throws.
JSONParse(s) ==
    LET r == ParseValue(s, SkipWs(s, 1))
    IN  IF r.ok /\ SkipWs(s, r.next) = Len(s) + 1 THEN r.val ELSE SyntaxError

(***************************************************************************)
(* The preference store: useLocalStorageState.                             *)
(***************************************************************************)
Keys == {"isPlaying", "volume", "hiddenVideo", "muted"}

\* localStorage.getItem returns null for a key with no entry.
NoItem == "<no item>"

\* The initialValue each key is created with.
Default ==
    [k \in Keys |->
        CASE k = "isPlaying" -> JBool(TRUE)
          [] k = "volume" -> JNum(50)
          [] k = "hiddenVideo" -> JBool(FALSE)
          [] k = "muted" -> JBool(FALSE)]

\* The type parameter T each key is declared with.
TypeOf ==
    [k \in Keys |-> IF k = "volume" THEN "number" ELSE "boolean"]

\* The hosts an instance can be initialised in: a browser window, no window
\* (a render outside the browser), a window whose localStorage read throws.
Envs == {"window", "noWindow", "readThrows"}

\* Faulty variant of the initialiser: no try/catch around the read.
useLocalStorageStateBroken(key, store, e) ==
    IF e = "noWindow" THEN Default[key]
    ELSE IF e = "readThrows" THEN SyntaxError
    ELSE LET item == store[key]
         IN  IF item # NoItem THEN JSONParse(item) ELSE Default[key]

\* Faulty variant of the initialiser: the test of item against null inverted.
useLocalStorageStateInverted(key, store, e) ==
    IF e = "noWindow" THEN Default[key]
    ELSE IF e = "readThrows" THEN Default[key]
    ELSE LET item == store[key]
         IN  IF item = NoItem THEN JNull ELSE Default[key]

\* The useState initialiser of useLocalStorageState.
useLocalStorageState(key, store, e) ==
    IF e = "noWindow" THEN Default[key]
    ELSE IF e = "readThrows" THEN Default[key]
    ELSE LET item == store[key]
         IN  IF item # NoItem
             THEN IF JSONParse(item) = SyntaxError THEN Default[key]
                  ELSE JSONParse(item)
             ELSE Default[key]

\* Faulty variant of setValue: setState inside the try, after setItem.
setValueOnlyWritten(key, value, inst, ok) ==
    /\ storage' = IF ok THEN [storage EXCEPT ![key] = JSONStringify(value)]
                  ELSE storage
    /\ state' = IF mounted /\ inst = gen /\ ok THEN [state EXCEPT ![key] = value]
                ELSE state

\* Faulty variant of setValue: nothing is written for a view torn down.
setValueLiveOnly(key, value, inst, ok) ==
    /\ storage' = IF ok /\ mounted /\ inst = gen
                  THEN [storage EXCEPT ![key] = JSONStringify(value)]
                  ELSE storage
    /\ state' = IF mounted /\ inst = gen THEN [state EXCEPT ![key] = value]
                ELSE state

\* setValue for the instance inst: ok tells whether localStorage.setItem
\* returned (TRUE) or threw (FALSE).  setState of an instance that is no
\* longer the mounted one changes nothing.
setValue(key, value, inst, ok) ==
    /\ storage' = IF ok THEN [storage EXCEPT ![key] = JSONStringify(value)]
                  ELSE storage
    /\ state' = IF mounted /\ inst = gen THEN [state EXCEPT ![key] = value]
                ELSE state

Wrote(ok) == IF ok THEN "ok" ELSE "failed"

\* Event handlers run in a mounted view in a browser.
Interactive == mounted /\ env # "noWindow"

(***************************************************************************)
(* The callback log: addLog.                                               *)
(***************************************************************************)
Slice(s, n) == SubSeq(s, 1, Min(Len(s), n))

\* Seconds in a day: toLocaleTimeString gives the time of day.
DayLen == 86400

\* The time of day, in seconds since midnight, t seconds into the session.
Clock(t) == (DayLen - 1 + t) % DayLen

\* What new Date() reads now.
Now == Clock(ticks)

TwoDigits(n) == Digit[(n \div 10) + 1] \o Digit[(n % 10) + 1]

\* Date.prototype.toLocaleTimeString of a time of day in the en-US locale:
\* 12-hour clock, hours unpadded, whole seconds.
toLocaleTimeString(sec) ==
    LET h24 == sec \div 3600
        h12 == IF h24 % 12 = 0 THEN 12 ELSE h24 % 12
    IN  NatToString(h12) \o ":" \o TwoDigits((sec \div 60) % 60) \o ":"
        \o TwoDigits(sec % 60) \o (IF h24 < 12 THEN " AM" ELSE " PM")

\* The logEntry addLog builds.
LogEntry(date, event, data) ==
    [timestamp |-> toLocaleTimeString(date), event |-> event, data |-> data]

\* Faulty variant of the updater: a full log drops the new entry.
addLogKeepOldest(prev, logEntry) ==
    IF Len(prev) < MaxLogs THEN <<logEntry>> \o prev ELSE prev

\* Faulty variant of the updater: slice(0, 51).
addLogOffByOne(prev, logEntry) == Slice(<<logEntry>> \o prev, MaxLogs + 1)

\* The updater addLog hands to setCallbackLogs.
addLog(prev, logEntry) == Slice(<<logEntry>> \o prev, MaxLogs)

(***************************************************************************)
(* The state after the first render of ReactPlayerDebugger.                *)
(***************************************************************************)
NoStorage == [k \in Keys |-> NoItem]

\* What localStorage may hold for a key before the page first runs: nothing,
\* a value of the key's type, a value of another type, text that is no JSON.
RawStrings(k) ==
    CASE k = "volume" -> {"0.80", "true", "null", "0.8.1"}
      [] k = "isPlaying" -> {"true", " false", "0.5", "\"on\"", "{"}
      [] k = "hiddenVideo" -> {"{}", "{"}
      [] k = "muted" -> {"true", "-1", "{"}

\* At most one key has an entry before the first run.
InitialStorages ==
    {NoStorage} \cup
    {[NoStorage EXCEPT ![k] = s] : <<k, s>> \in
        UNION {{<<k, s>> : s \in RawStrings(k)} : k \in Keys}}

NeverSet == [done |-> FALSE, value |-> JNull, ok |-> FALSE]

ZeroPlayerState ==
    [duration |-> 0, played |-> 0, playedSeconds |-> 0, loaded |-> 0,
     loadedSeconds |-> 0]

InitWith(storages, envs) ==
    /\ mounted = TRUE
    /\ gen = 1
    /\ env \in envs
    /\ storage \in storages
    /\ state = [k \in Keys |-> useLocalStorageState(k, storage, env)]
    /\ timers = <<>>
    /\ scheduled = 0
    /\ fired = 0
    /\ callbackLogs = <<>>
    /\ appended = <<>>
    /\ logged = 0
    /\ ticks = 0
    /\ sinceClear = 0
    /\ playerRef = TRUE
    /\ playerState = ZeroPlayerState
    /\ sets = 0
    /\ lastSet = [k \in Keys |-> NeverSet]
    /\ last = [op |-> "init", key |-> "", wrote |-> "none"]

(***************************************************************************)
(* Operations of the page.                                                 *)
(***************************************************************************)
\* A call of the setter useLocalStorageState returned for key.
Set(key, value, inst, ok) ==
    /\ setValue(key, value, inst, ok)
    /\ lastSet' = [lastSet EXCEPT ![key] = [done |-> TRUE, value |-> value, ok |-> ok]]

\* One addLog call.
Log1(event, data) ==
    /\ callbackLogs' = addLog(callbackLogs, LogEntry(Now, event, data))
    /\ appended' = addLog(appended, logged + 1)
    /\ logged' = logged + 1
    /\ sinceClear' = sinceClear + 1
    /\ UNCHANGED ticks

\* Two addLog calls in one handler run, each reading the clock: elapsed is
\* the seconds the clock passes between the two readings.
Log2(event1, data1, event2, data2, elapsed) ==
    /\ callbackLogs' = addLog(addLog(callbackLogs, LogEntry(Now, event1, data1)),
                              LogEntry(Clock(ticks + elapsed), event2, data2))
    /\ appended' = addLog(addLog(appended, logged + 1), logged + 2)
    /\ logged' = logged + 2
    /\ sinceClear' = sinceClear + 2
    /\ ticks' = ticks + elapsed

\* A second passes on the wall clock.
Tick ==
    /\ ticks' = ticks + 1
    /\ last' = [op |-> "Tick", key |-> "", wrote |-> "none"]
    /\ UNCHANGED <<storeVars, timerVars, logVars, playerRef, playerState, sets, lastSet>>

\* The "Playing" checkbox: setIsPlaying(e.target.checked).
PlayingChange(checked, ok) ==
    /\ Interactive
    /\ Set("isPlaying", JBool(checked), gen, ok)
    /\ last' = [op |-> "PlayingChange", key |-> "isPlaying", wrote |-> Wrote(ok)]
    /\ UNCHANGED <<mounted, gen, env, timerVars, logVars, ticks, playerRef, playerState, sets>>

\* The "Test Batch Pause and Play" button.
testBatchPauseAndPlay(ok) ==
    /\ Interactive
    /\ scheduled < MaxToggles
    /\ Set("isPlaying", JBool(FALSE), gen, ok)
    /\ timers' = Append(timers, gen)
    /\ scheduled' = scheduled + 1
    /\ last' = [op |-> "testBatchPauseAndPlay", key |-> "isPlaying", wrote |-> Wrote(ok)]
    /\ UNCHANGED <<mounted, gen, env, fired, logVars, ticks, playerRef, playerState, sets>>

\* The callback given to setTimeout runs: setIsPlaying(true).
TimerFires(ok) ==
    /\ timers # <<>>
    /\ Set("isPlaying", JBool(TRUE), Head(timers), ok)
    /\ timers' = Tail(timers)
    /\ fired' = fired + 1
    /\ last' = [op |-> "TimerFires", key |-> "isPlaying", wrote |-> Wrote(ok)]
    /\ UNCHANGED <<mounted, gen, env, scheduled, logVars, ticks, playerRef, playerState, sets>>

\* Faulty variant of handleEnded: the playing flag is left alone.
handleEndedLogOnly(ok) ==
    /\ Interactive
    /\ Log1("onEnded", "{}")
    /\ last' = [op |-> "handleEnded", key |-> "isPlaying", wrote |-> "none"]
    /\ UNCHANGED <<storeVars, lastSet, timerVars, playerRef, playerState, sets>>

\* onEnded.
handleEnded(ok) ==
    /\ Interactive
    /\ Log1("onEnded", "{}")
    /\ Set("isPlaying", JBool(FALSE), gen, ok)
    /\ last' = [op |-> "handleEnded", key |-> "isPlaying", wrote |-> Wrote(ok)]
    /\ UNCHANGED <<mounted, gen, env, timerVars, playerRef, playerState, sets>>

\* Faulty variant of Unmount: teardown clears the pending timeouts.
UnmountClearingTimers ==
    /\ mounted
    /\ mounted' = FALSE
    /\ playerRef' = FALSE
    /\ timers' = <<>>
    /\ last' = [op |-> "Unmount", key |-> "", wrote |-> "none"]
    /\ UNCHANGED <<gen, env, storage, state, scheduled, fired, logVars, ticks, playerState,
                   sets, lastSet>>

\* The view is torn down: React drops its state and clears the ref.  Pending
\* timeouts are not cleared (no effect cleanup, no clearTimeout).
Unmount ==
    /\ mounted
    /\ mounted' = FALSE
    /\ playerRef' = FALSE
    /\ last' = [op |-> "Unmount", key |-> "", wrote |-> "none"]
    /\ UNCHANGED <<gen, env, storage, state, timerVars, logVars, ticks, playerState, sets,
                   lastSet>>

\* A fresh instance of the view is rendered (a remount or a reload): every
\* useState initialiser runs again.
Mount(e) ==
    /\ ~mounted
    /\ gen < MaxMounts
    /\ mounted' = TRUE
    /\ gen' = gen + 1
    /\ env' = e
    /\ state' = [k \in Keys |-> useLocalStorageState(k, storage, e)]
    /\ callbackLogs' = <<>>
    /\ appended' = <<>>
    /\ sinceClear' = 0
    /\ playerRef' = TRUE
    /\ playerState' = ZeroPlayerState
    /\ last' = [op |-> "Mount", key |-> "", wrote |-> "none"]
    /\ UNCHANGED <<storage, timerVars, logged, ticks, sets, lastSet>>

(***************************************************************************)
(* The page with its playing flag: the checkbox, the deferred toggle, its  *)
(* timeouts, the ended callback, teardown and remount.                     *)
(***************************************************************************)
PageStorages == {st \in InitialStorages : \A k \in Keys \ {"isPlaying"} : st[k] = NoItem}

Init == InitWith(PageStorages, {"window"})

Next ==
    \/ \E checked \in BOOLEAN, ok \in BOOLEAN : PlayingChange(checked, ok)
    \/ \E ok \in BOOLEAN : testBatchPauseAndPlay(ok)
    \/ \E ok \in BOOLEAN : TimerFires(ok)
    \/ logged < MaxEnded /\ \E ok \in BOOLEAN : handleEnded(ok)
    \/ logged < MaxEnded /\ ticks < MaxTicks /\ Tick
    \/ Unmount
    \/ \E e \in Envs : Mount(e)

Spec == Init /\ [][Next]_vars

\* The host's event loop runs every timeout that is due.
FairSpec == Spec /\ WF_vars(\E ok \in BOOLEAN : TimerFires(ok))

(***************************************************************************)
(* The playback callbacks, the seek buttons and the "Clear Logs" button.   *)
(***************************************************************************)
\* JSON.stringify of an object with one or two properties, given each
\* property's value as JSON text.
Obj1(name, json) == "{" \o Quote(name) \o ":" \o json \o "}"
Obj2(name1, json1, name2, json2) ==
    "{" \o Quote(name1) \o ":" \o json1 \o "," \o Quote(name2) \o ":" \o json2 \o "}"

LogOnly(op) ==
    /\ last' = [op |-> op, key |-> "", wrote |-> "none"]
    /\ UNCHANGED <<storeVars, timerVars, playerRef, playerState, sets, lastSet>>

handlePlay ==
    /\ Interactive
    /\ Log1("onPlay", "{}")
    /\ LogOnly("handlePlay")

\* Faulty variant of handlePause: logs under the name of onPlay.
handlePauseAsPlay ==
    /\ Interactive
    /\ Log1("onPlay", "{}")
    /\ LogOnly("handlePause")

handlePause ==
    /\ Interactive
    /\ Log1("onPause", "{}")
    /\ LogOnly("handlePause")

handleReady ==
    /\ Interactive
    /\ Log1("onReady", Obj1("player", Quote("ready")))
    /\ LogOnly("handleReady")

\* currentTime is what playerRef.current.getCurrentTime() returns, elapsed
\* the seconds the clock passes between the handler's two addLog calls.
handleStart(currentTime, elapsed) ==
    /\ Interactive
    /\ IF playerRef
       THEN Log2("onStart", "{}",
                 "onStart - getCurrentTime", Obj1("currentTime", NumToString(currentTime)),
                 elapsed)
       ELSE Log1("onStart", "{}")
    /\ LogOnly("handleStart")

handleProgress(progress) ==
    /\ Interactive
    /\ playerState' = [duration |-> progress.loaded,
                       played |-> progress.played,
                       playedSeconds |-> progress.playedSeconds,
                       loaded |-> progress.loaded,
                       loadedSeconds |-> progress.loadedSeconds]
    /\ Log1("onProgress",
            Obj2("playedSeconds", Quote(ToFixed2(progress.playedSeconds)),
                 "played", Quote(ToFixed2(progress.played * 100) \o "%")))
    /\ last' = [op |-> "handleProgress", key |-> "", wrote |-> "none"]
    /\ UNCHANGED <<storeVars, timerVars, playerRef, sets, lastSet>>

handleDuration(duration) ==
    /\ Interactive
    /\ Log1("onDuration", Obj1("duration", NumToString(duration)))
    /\ LogOnly("handleDuration")

\* error is String(error), the text of the value the player reported.
handleError(error) ==
    /\ Interactive
    /\ Log1("onError", Obj1("error", Quote(error)))
    /\ LogOnly("handleError")

handleSeek(seconds) ==
    /\ Interactive
    /\ Log1("onSeek", Obj1("seconds", NumToString(seconds)))
    /\ LogOnly("handleSeek")

\* A seek button.  The player's own seekTo is outside the page.
seekTo(seconds) ==
    /\ Interactive
    /\ playerRef
    /\ Log1("Manual seekTo", Obj1("seconds", NumToString(seconds)))
    /\ LogOnly("seekTo")

\* The "Clear Logs" button: setCallbackLogs([]).
ClearLogs ==
    /\ Interactive
    /\ callbackLogs' = <<>>
    /\ appended' = <<>>
    /\ sinceClear' = 0
    /\ last' = [op |-> "ClearLogs", key |-> "", wrote |-> "none"]
    /\ UNCHANGED <<storeVars, timerVars, logged, ticks, playerRef, playerState, sets,
                   lastSet>>

\* What the player reports in the model.
ProgressInputs ==
    {[played |-> 25, playedSeconds |-> 3000, loaded |-> 50, loadedSeconds |-> 6000]}
DurationInputs == {12000}
ErrorInputs == {"Error: boom", "cannot play \"x\""}
SeekInputs == {3050}
\* Seconds passing between the two clock readings of handleStart.
ElapsedInputs == {0, 1}

CurrentTimeInputs == {0}

\* The seek buttons: 0 s, 30 s, 60 s and half the player's duration.
SeekButtons == {0, 3000, 6000} \cup {d \div 2 : d \in DurationInputs}

CallbackInit == InitWith({NoStorage}, {"window"})

CallbackNext ==
    \/ logged < MaxAppends /\ handlePlay
    \/ logged < MaxAppends /\ handlePause
    \/ logged < MaxAppends /\ handleReady
    \/ logged + 1 < MaxAppends
       /\ \E t \in CurrentTimeInputs, d \in ElapsedInputs :
             ticks + d <= MaxTicks /\ handleStart(t, d)
    \/ logged < MaxAppends /\ \E progress \in ProgressInputs : handleProgress(progress)
    \/ logged < MaxAppends /\ \E d \in DurationInputs : handleDuration(d)
    \/ logged < MaxAppends /\ \E error \in ErrorInputs : handleError(error)
    \/ logged < MaxAppends /\ \E ok \in BOOLEAN : handleEnded(ok)
    \/ logged < MaxAppends /\ \E seconds \in SeekInputs : handleSeek(seconds)
    \/ logged < MaxAppends /\ \E seconds \in SeekButtons : seekTo(seconds)
    \/ ticks < MaxTicks /\ Tick
    \/ ClearLogs

CallbackSpec == CallbackInit /\ [][CallbackNext]_vars

(***************************************************************************)
(* The log under a long session: the player repeats one scripted run of    *)
(* callbacks, a second passing between start and play of each run, and the *)
(* log may be cleared at any point.                                        *)
(***************************************************************************)
\* The script is 11 log entries long.
At(pos) == logged < LogAppends /\ logged % 11 = pos

LogNext ==
    \/ At(0) /\ handleReady
    \/ At(1) /\ handleDuration(12000)
    \/ At(2) /\ handleStart(0, 0)
    \/ At(4) /\ ticks = logged \div 11 /\ Tick
    \/ At(4) /\ ticks = (logged \div 11) + 1 /\ handlePlay
    \/ At(5) /\ handleProgress([played |-> logged % 100, playedSeconds |-> logged * 100,
                                loaded |-> 50, loadedSeconds |-> 6000])
    \/ At(6) /\ handleSeek(logged * 100)
    \/ At(7) /\ seekTo(logged * 100)
    \/ At(8) /\ handlePause
    \/ At(9) /\ handleError("Error: boom")
    \/ At(10) /\ \E ok \in BOOLEAN : handleEnded(ok)
    \/ ClearLogs

LogSpec == CallbackInit /\ [][LogNext]_vars

(***************************************************************************)
(* The preference store on its own: the four keys, set through the setter  *)
(* the hook returns, torn down and initialised afresh.                     *)
(***************************************************************************)
\* The values the page calls each setter with: the checked state of a
\* checkbox, and parseFloat of the value of the range input from 0 to 1 in
\* steps of 0.01.
ValuesOf(k) ==
    IF k = "volume" THEN {JNum(0), JNum(5), JNum(80), JNum(100)}
    ELSE {JBool(TRUE), JBool(FALSE)}

\* setIsPlaying, setVolume, setHiddenVideo or setMuted is called with value.
SetValue(key, value, ok) ==
    /\ Interactive
    /\ sets < MaxSets
    /\ Set(key, value, gen, ok)
    /\ sets' = sets + 1
    /\ last' = [op |-> "SetValue", key |-> key, wrote |-> Wrote(ok)]
    /\ UNCHANGED <<mounted, gen, env, timerVars, logVars, ticks, playerRef, playerState>>

StoreInit == InitWith(InitialStorages, Envs)

StoreNext ==
    \/ \E k \in Keys : \E v \in ValuesOf(k), ok \in BOOLEAN : SetValue(k, v, ok)
    \/ Unmount
    \/ \E e \in Envs : Mount(e)

StoreSpec == StoreInit /\ [][StoreNext]_vars

(***************************************************************************)
(* Properties of the deferred toggle, the ended callback and teardown.     *)
(***************************************************************************)
\* The timeout at the head of the queue belongs to the mounted instance.
HeadTimerLive == timers # <<>> /\ mounted /\ Head(timers) = gen

\* The timeout at the head of the queue belongs to a view torn down since.
HeadTimerDefunct == timers # <<>> /\ ~(mounted /\ Head(timers) = gen)

ToggleStep ==
    /\ last'.op = "testBatchPauseAndPlay" =>
          /\ state'["isPlaying"] = JBool(FALSE)
          /\ timers' = Append(timers, gen)
          /\ scheduled' = scheduled + 1
    /\ last'.op # "testBatchPauseAndPlay" => scheduled' = scheduled
    /\ (last'.op = "TimerFires" /\ HeadTimerLive) => state'["isPlaying"] = JBool(TRUE)
    /\ last'.op = "TimerFires" => (timers' = Tail(timers) /\ fired' = fired + 1)
    /\ last'.op \notin {"testBatchPauseAndPlay", "TimerFires"} =>
          (timers' = timers /\ fired' = fired)

\* C6: every run of the deferred toggle sets the playing flag to false at once
\* and schedules exactly one timeout; no step but its own firing removes a
\* timeout; pending timeouts all fire in the end; and the firing of a
\* timeout whose view is still mounted leaves the playing flag true, whatever
\* the checkbox, the ended callback or other runs of the toggle did meanwhile.
DeferredToggle ==
    /\ [][ToggleStep]_vars
    /\ (timers # <<>>) ~> (timers = <<>>)

\* C6 witness: two timeouts overlapped, the ended callback ran in between, and
\* the second has just fired in the view that scheduled it.
DeferredToggleWitness ==
    /\ last.op = "TimerFires"
    /\ fired = 2
    /\ mounted /\ gen = 1
    /\ logged > 0
    /\ state["isPlaying"] = JBool(TRUE)

\* C7: right after the ended callback the playing flag is false, the durable
\* isPlaying entry is "false" when the write succeeded, and the newest log
\* entry is the onEnded one just made.
EndedPausesAndLogs ==
    last.op = "handleEnded" =>
        /\ state["isPlaying"] = JBool(FALSE)
        /\ (last.wrote = "ok" => storage["isPlaying"] = "false")
        /\ callbackLogs # <<>>
        /\ Head(callbackLogs).event = "onEnded"
        /\ Head(callbackLogs).timestamp = toLocaleTimeString(Now)
        /\ Head(appended) = logged

\* C7 witness: the ended callback ran a second time, a second after the
\* first, while a timeout of the toggle was pending, and its write succeeded.
EndedWitness ==
    /\ last.op = "handleEnded"
    /\ last.wrote = "ok"
    /\ timers # <<>>
    /\ storage["isPlaying"] = "false"
    /\ appended = <<2, 1>>
    /\ callbackLogs[1].timestamp = "12:00:00 AM"
    /\ callbackLogs[2].timestamp = "11:59:59 PM"

\* C10 as stated: the firing of a timeout whose view was torn down changes
\* neither the playing flag nor the durable isPlaying entry.
DefunctTimerChangesNothing ==
    [][(last'.op = "TimerFires" /\ HeadTimerDefunct) =>
          (state' = state /\ storage' = storage)]_vars

DefunctTimerStep ==
    /\ (last'.op = "TimerFires" /\ HeadTimerDefunct) =>
          /\ state' = state
          /\ last'.wrote = "ok" => storage' = [storage EXCEPT !["isPlaying"] = "true"]
          /\ last'.wrote = "failed" => storage' = storage
    /\ (last'.op = "Mount" /\ env' = "window" /\ storage["isPlaying"] = "true") =>
          state'["isPlaying"] = JBool(TRUE)

\* C10 amended: the firing of a timeout whose view was torn down leaves every
\* in-memory value as it was, but still writes "true" to the durable isPlaying
\* entry (left alone only when the write fails), and a later fresh instance
\* that reads "true" starts with the playing flag true.
DefunctTimerStillPersists == [][DefunctTimerStep]_vars

\* C10 witness: the toggle ran, the view was torn down, and the timeout has
\* just fired on the torn-down view: the playing flag it left is still false
\* and the durable entry is now "true".
DefunctTimerWitness ==
    /\ last.op = "TimerFires"
    /\ last.wrote = "ok"
    /\ ~mounted
    /\ scheduled = 1 /\ fired = 1
    /\ state["isPlaying"] = JBool(FALSE)
    /\ storage["isPlaying"] = "true"

(***************************************************************************)
(* Properties of the callback log.                                         *)
(***************************************************************************)
\* The event name the n-th append of the scripted session carries.
ScriptEvent(n) ==
    CASE (n - 1) % 11 = 0 -> "onReady"
      [] (n - 1) % 11 = 1 -> "onDuration"
      [] (n - 1) % 11 = 2 -> "onStart"
      [] (n - 1) % 11 = 3 -> "onStart - getCurrentTime"
      [] (n - 1) % 11 = 4 -> "onPlay"
      [] (n - 1) % 11 = 5 -> "onProgress"
      [] (n - 1) % 11 = 6 -> "onSeek"
      [] (n - 1) % 11 = 7 -> "Manual seekTo"
      [] (n - 1) % 11 = 8 -> "onPause"
      [] (n - 1) % 11 = 9 -> "onError"
      [] (n - 1) % 11 = 10 -> "onEnded"

\* The time of day the n-th append of the scripted session was stamped with:
\* a second passes before the fifth append of every run of the script.
ScriptTime(n) == toLocaleTimeString((DayLen - 1 + ((n + 6) \div 11)) % DayLen)

\* C1: the log never holds more than 50 entries, and of any two entries the
\* one nearer the head was appended later: every entry is the one its append
\* made, and the appends' ordinals strictly decrease from the head.  (The
\* stored timestamp is a time of day in whole seconds and does not order the
\* entries: neighbours can carry equal ones, and it wraps at midnight.)
LogBoundedNewestFirst ==
    /\ Len(callbackLogs) <= 50
    /\ Len(appended) = Len(callbackLogs)
    /\ \A i \in 1..Len(callbackLogs) :
          /\ callbackLogs[i].event = ScriptEvent(appended[i])
          /\ callbackLogs[i].timestamp = ScriptTime(appended[i])
    /\ \A i, j \in 1..Len(callbackLogs) : i < j => appended[i] > appended[j]

\* C1 witness: the log is full, entries have been evicted from its tail, the
\* two entries at the head carry the same timestamp, and the entries made
\* after midnight sit above those made before it.
LogFullWitness ==
    /\ Len(callbackLogs) = 50
    /\ sinceClear > 50
    /\ appended[50] > 1
    /\ callbackLogs[1].timestamp = callbackLogs[2].timestamp
    /\ callbackLogs[1].timestamp = "12:00:04 AM"
    /\ callbackLogs[50].timestamp = "11:59:59 PM"

\* C2: n appends after the log was last empty leave exactly min(n, 50)
\* entries, and they are the min(n, 50) latest appends, newest at the head;
\* after 55 appends the 5 oldest are gone.
LogKeepsLatest ==
    /\ Len(callbackLogs) = Min(sinceClear, 50)
    /\ \A i \in 1..Len(callbackLogs) :
          /\ appended[i] = logged - i + 1
          /\ callbackLogs[i].event = ScriptEvent(logged - i + 1)
    /\ (logged = 55 /\ sinceClear = 55) =>
          /\ Len(callbackLogs) = 50
          /\ appended[1] = 55 /\ callbackLogs[1].event = "onEnded"
          /\ appended[50] = 6 /\ callbackLogs[50].event = "onProgress"

\* C2 witness: 55 appends since the start, none cleared.
LogAfter55Witness ==
    /\ logged = 55
    /\ sinceClear = 55
    /\ Len(callbackLogs) = 50
    /\ appended[50] = 6
    /\ callbackLogs[50].event = "onProgress"

CallbackOps ==
    {"handleReady", "handleStart", "handlePlay", "handlePause", "handleEnded",
     "handleError", "handleProgress", "handleDuration", "handleSeek"}

EventOf(op) ==
    CASE op = "handleReady" -> "onReady"
      [] op = "handleStart" -> "onStart"
      [] op = "handlePlay" -> "onPlay"
      [] op = "handlePause" -> "onPause"
      [] op = "handleEnded" -> "onEnded"
      [] op = "handleError" -> "onError"
      [] op = "handleProgress" -> "onProgress"
      [] op = "handleDuration" -> "onDuration"
      [] op = "handleSeek" -> "onSeek"

\* This step put exactly n new entries at the head of the log, the first
\* stamped with the time of day as the step began, the last with the time of
\* day as it ended.
Appended(n) ==
    /\ logged' = logged + n
    /\ Len(callbackLogs') = Min(Len(callbackLogs) + n, 50)
    /\ \A i \in 1..n : appended'[i] = logged + n + 1 - i
    /\ callbackLogs'[n].timestamp = toLocaleTimeString(Now)
    /\ callbackLogs'[1].timestamp = toLocaleTimeString(Clock(ticks'))
    /\ \A i \in (n + 1)..Len(callbackLogs') :
          /\ callbackLogs'[i] = callbackLogs[i - n]
          /\ appended'[i] = appended[i - n]

\* C9 as stated: every firing of a playback callback appends exactly one
\* entry, named after the callback.
EachCallbackLogsOnce ==
    [][last'.op \in CallbackOps =>
          (Appended(1) /\ callbackLogs'[1].event = EventOf(last'.op))]_vars

CallbackStep ==
    /\ last'.op \in CallbackOps \ {"handleStart"} =>
          (Appended(1) /\ ticks' = ticks /\ callbackLogs'[1].event = EventOf(last'.op))
    /\ last'.op = "handleStart" =>
          /\ Appended(2)
          /\ callbackLogs'[2].event = "onStart"
          /\ callbackLogs'[1].event = "onStart - getCurrentTime"

\* C9 amended: every firing of a playback callback other than start appends
\* exactly one entry, named after the callback and stamped with the time of
\* day of the firing; a firing of start appends two, "onStart" and then
\* "onStart - getCurrentTime", each stamped with the time of day of its own
\* append, which differ when a second passes in between.
CallbacksLogOnceButStart == [][CallbackStep]_vars

\* C9 witness: start has just fired after another callback and left its two
\* entries above that one, midnight passing between the two.
StartLogsTwiceWitness ==
    /\ last.op = "handleStart"
    /\ Len(callbackLogs) = 3
    /\ callbackLogs[1].event = "onStart - getCurrentTime"
    /\ callbackLogs[1].data = "{\"currentTime\":0}"
    /\ callbackLogs[2].event = "onStart"
    /\ callbackLogs[2].timestamp = "11:59:59 PM"
    /\ callbackLogs[1].timestamp = "12:00:00 AM"
    /\ callbackLogs[3].event = "onReady"

(***************************************************************************)
(* Properties of the preference store.                                     *)
(***************************************************************************)
\* Text that JSON.parse rejects.
Unparsable == {"{", "0.8.1"}

JustInitialised == last.op \in {"init", "Mount"}

\* C3: a fresh instance starts every key at its default when the key has no
\* entry, when its entry cannot be parsed, when there is no window and when
\* reading localStorage throws.
DefaultOnMissingOrCorrupt ==
    JustInitialised =>
        \A k \in Keys :
            (\/ storage[k] = NoItem
             \/ storage[k] \in Unparsable
             \/ env \in {"noWindow", "readThrows"}) => state[k] = Default[k]

\* C3 witness: a fresh instance whose read threw although a valid entry was
\* stored started at the default.
DefaultOnThrowWitness ==
    /\ last.op = "Mount"
    /\ env = "readThrows"
    /\ storage["muted"] = "true"
    /\ state["muted"] = JBool(FALSE)

SetStep ==
    last'.op = "SetValue" =>
        LET k == last'.key
        IN  /\ lastSet'[k].done
            /\ state'[k] = lastSet'[k].value
            /\ last'.wrote = "failed" => storage'[k] = storage[k]
            /\ \A other \in Keys \ {k} : state'[other] = state[other]

\* C4: after a set the in-memory value of the key is the value set, whether
\* the durable write succeeded or failed, and a failed write leaves the
\* durable entry as it was.
SetUpdatesMemoryRegardless == [][SetStep]_vars

\* C4 witness: a set whose write failed changed the in-memory volume and left
\* no durable entry.
SetFailedWriteWitness ==
    /\ last = [op |-> "SetValue", key |-> "volume", wrote |-> "failed"]
    /\ state["volume"] = JNum(80)
    /\ storage["volume"] = NoItem

\* A fresh instance was just initialised in a window whose storage reads.
Reloaded == last.op = "Mount" /\ env = "window"

PersistedLast(k) == lastSet[k].done /\ lastSet[k].ok

\* C5: a fresh instance that reads storage returns, for every key, the value
\* of the latest set of the key when that set's write succeeded, whatever
\* value the page set, and not the default; with no entry for the key it
\* returns the default, 0.5 for volume.
RoundTripEveryValue ==
    /\ Default["volume"] = JNum(50)
    /\ Reloaded =>
          \A k \in Keys :
              /\ PersistedLast(k) => state[k] = lastSet[k].value
              /\ storage[k] = NoItem => state[k] = Default[k]

\* C5 witness: volume was set to 0.05 and then to 0.8, both written, and a
\* fresh instance started at 0.8.
RoundTripWitness ==
    /\ Reloaded
    /\ sets = 2
    /\ lastSet["volume"] = [done |-> TRUE, value |-> JNum(80), ok |-> TRUE]
    /\ storage["volume"] = "0.8"
    /\ state["volume"] = JNum(80)

\* C8: while a view is mounted isPlaying, hiddenVideo and muted are booleans
\* and volume is a number.
ValueTypesFixed == mounted => \A k \in Keys : state[k].type = TypeOf[k]

====
